---- MODULE Spec2Model ----
(***************************************************************************)
(* Shared-object lifecycle of libcyphal's presentation layer:              *)
(*   - UnRefNode: the intrusive doubly linked list of unreferenced nodes,  *)
(*   - SharedObject: the intrusive reference count, createWithPmr and      *)
(*     destroyWithPmr,                                                     *)
(*   - the executor's spin (callbacks, then the drain of the ledger) and   *)
(*     the tracking memory resource, as far as the example drives them,    *)
(*   - the example's main loop: spinOnce, lateness, poll timeout, poll.    *)
(***************************************************************************)
EXTENDS Integers, Sequences, FiniteSets, TLC

\* ------------------------------------------------------------------ bounds
NumObjs == 3
MaxRefs == 2
NumRefObjs == 2
MaxZeros == 2
SizeBits == 16
NumLifeObjs == 2
MaxHandles == 2
MaxCbs == 2
RunSeconds == 1

\* Time is counted in ticks of 500 ms.
HalfSecond == 1
OneSecond == 2
StartupTime == 0

\* ------------------------------------------------------------- the nodes
\* nullptr of prev_node / next_node
Null == -1

\* The objects (SharedObject instances), by identity.
Objs == 1..NumObjs

\* The anchor of the ledger the executor drains.
MainAnchor == 0

\* The anchor of a second, independent ledger (another owner).
OtherAnchor == NumObjs + 1

Anchors == {MainAnchor, OtherAnchor}

Nodes == Objs \cup Anchors

VARIABLES
    prev_node,      \* UnRefNode::prev_node of every node
    next_node,      \* UnRefNode::next_node of every node
    ref_count_,     \* SharedObject::ref_count_ of every object
    objState,       \* "none" (not created), "live" (constructed), "dead" (destroyed)
    unrefOrder,     \* per anchor: the objects in the order they were linked (unlinked ones removed)
    drainLog,       \* per anchor: the objects in the order a drain destroyed them
    last,           \* the last call made: [op, obj, origin, ret, pre]
    held,           \* per object: the retains not yet matched by a release
    nTrue,          \* per object: the release() calls that returned true
    zeros,          \* per object: the times the retains and releases balanced again
    handles,        \* per object: the handles the application holds to it
    dep,            \* per object: the object it holds a reference to (or Null)
    destroyLog,     \* per object: what each destroy() call found: [referenced, linked, exec]
    afterDestroy,   \* an operation was applied to an object after its destroy()
    exec,           \* "Idle", "Running", "Draining", "TearDown", "Done"
    cbOwner,        \* the object on whose behalf the running callback executes (or Null)
    mark,           \* per object: "none", "released", "resurrectedCb", "resurrected"
    arena,          \* the tracking memory resource's accounting
    out_failure,    \* the caller's optional<Failure> after the last createWithPmr
    now,            \* executor_.now(), in ticks
    cbs,            \* registered callbacks by registration number: [status, due]
    fired,          \* the callbacks the last spinOnce executed, in order: [id, due, at]
    spin_result,    \* the SpinResult of the last spinOnce
    worst_lateness, \* the main loop's running maximum
    opt_timeout,    \* the timeout the main loop passes to the poll
    pc,             \* main loop: "while", "spin", "after", "poll", "done"
    poll,           \* the last poll: [start, wake, timeout, outcome, ret]
    spun,           \* spinOnce has run in the current iteration
    expectFailed    \* an EXPECT_THAT on the poll's result has failed

listVars == <<unrefOrder, drainLog>>

refVars == <<held, nTrue, zeros>>

lifeVars == <<handles, dep, destroyLog, afterDestroy, exec, cbOwner, mark, arena, out_failure>>

loopVars == <<now, cbs, fired, spin_result, worst_lateness, opt_timeout, pc, poll, spun,
              expectFailed>>

vars == <<prev_node, next_node, ref_count_, objState, last, listVars, refVars, lifeVars,
          loopVars>>

\* ---------------------------------------------------------------- UnRefNode

\* (nullptr != prev_node) && (nullptr != next_node)
IsLinked(p, n, this) == p[this] # Null /\ n[this] # Null

\* (prev_node != nullptr) == (next_node != nullptr)
BothOrNone(p, n, this) == (p[this] # Null) <=> (n[this] # Null)

\* A linkAsUnreferenced that links at the head of the list (right after the origin).
LinkAtHead(p, n, this, origin) ==
    IF p[this] = Null /\ n[this] = Null
    THEN LET p1 == [p EXCEPT ![this] = origin]
             n1 == [n EXCEPT ![this] = n[origin]]
             p2 == [p1 EXCEPT ![n1[origin]] = this]
             n2 == [n1 EXCEPT ![origin] = this]
         IN  [prev |-> p2, next |-> n2]
    ELSE [prev |-> p, next |-> n]

\* A linkAsUnreferenced without the "already linked?" test.
LinkUnconditionally(p, n, this, origin) ==
    LET n1 == [n EXCEPT ![this] = origin]
        p1 == [p EXCEPT ![this] = p[origin]]
        n2 == [n1 EXCEPT ![p1[origin]] = this]
        p2 == [p1 EXCEPT ![origin] = this]
    IN  [prev |-> p2, next |-> n2]

\* A linkAsUnreferenced that forgets origin.prev_node->next_node = this.
LinkNoForward(p, n, this, origin) ==
    IF p[this] = Null /\ n[this] = Null
    THEN LET n1 == [n EXCEPT ![this] = origin]
             p1 == [p EXCEPT ![this] = p[origin]]
             p2 == [p1 EXCEPT ![origin] = this]
         IN  [prev |-> p2, next |-> n1]
    ELSE [prev |-> p, next |-> n]

\* A linkAsUnreferenced that sets the node's own pointers and leaves the list alone.
LinkSelfOnly(p, n, this, origin) ==
    IF p[this] = Null /\ n[this] = Null
    THEN [prev |-> [p EXCEPT ![this] = p[origin]], next |-> [n EXCEPT ![this] = origin]]
    ELSE [prev |-> p, next |-> n]

\* UnRefNode::linkAsUnreferenced(origin), statement by statement.
LinkAsUnreferenced(p, n, this, origin) ==
    IF p[this] = Null /\ n[this] = Null
    THEN LET n1 == [n EXCEPT ![this] = origin]
             p1 == [p EXCEPT ![this] = p[origin]]
             n2 == [n1 EXCEPT ![p1[origin]] = this]
             p2 == [p1 EXCEPT ![origin] = this]
         IN  [prev |-> p2, next |-> n2]
    ELSE [prev |-> p, next |-> n]

\* An unlinkIfReferenced that clears next_node only.
UnlinkHalf(p, n, this) ==
    IF p[this] # Null /\ n[this] # Null
    THEN LET n1 == [n EXCEPT ![p[this]] = n[this]]
             p1 == [p EXCEPT ![n1[this]] = p[this]]
             n2 == [n1 EXCEPT ![this] = Null]
         IN  [prev |-> p1, next |-> n2]
    ELSE [prev |-> p, next |-> n]

\* An unlinkIfReferenced that forgets next_node->prev_node = prev_node.
UnlinkNoBackward(p, n, this) ==
    IF p[this] # Null /\ n[this] # Null
    THEN LET n1 == [n EXCEPT ![p[this]] = n[this]]
             n2 == [n1 EXCEPT ![this] = Null]
             p2 == [p EXCEPT ![this] = Null]
         IN  [prev |-> p2, next |-> n2]
    ELSE [prev |-> p, next |-> n]

\* An unlinkIfReferenced that does nothing.
UnlinkNothing(p, n, this) == [prev |-> p, next |-> n]

\* UnRefNode::unlinkIfReferenced(), statement by statement.
UnlinkIfReferenced(p, n, this) ==
    IF p[this] # Null /\ n[this] # Null
    THEN LET n1 == [n EXCEPT ![p[this]] = n[this]]
             p1 == [p EXCEPT ![n1[this]] = p[this]]
             n2 == [n1 EXCEPT ![this] = Null]
             p2 == [p1 EXCEPT ![this] = Null]
         IN  [prev |-> p2, next |-> n2]
    ELSE [prev |-> p, next |-> n]

\* The traversal of a ledger: from origin.next_node until the origin is reached again.
RECURSIVE WalkFrom(_, _, _, _)
WalkFrom(n, node, origin, fuel) ==
    IF node = origin \/ node = Null \/ fuel = 0
    THEN <<>>
    ELSE <<node>> \o WalkFrom(n, n[node], origin, fuel - 1)

Walk(n, origin) == WalkFrom(n, n[origin], origin, NumObjs + 2)

\* ------------------------------------------------------------ SharedObject

\* std::size_t arithmetic is modulo 2^N. N is 64 on the target; the wrap-around is
\* kept with a reduced width (TLC's integers are 32 bits wide).
SizeModulus == 2 ^ SizeBits

\* SharedObject::isReferenced(): ref_count_ > 0
IsReferenced(c) == c > 0

\* SharedObject::retain(): ++ref_count_
Retain(c) == (c + 1) % SizeModulus

\* A release() that tests the count before the decrement: return ref_count_-- == 0.
ReleasePostfix(c) == [count |-> (c - 1) % SizeModulus, result |-> c = 0]

\* A release() that reports "unreferenced" one release early.
ReleaseEarly(c) == [count |-> (c - 1) % SizeModulus, result |-> (c - 1) % SizeModulus <= 1]

\* SharedObject::release(): --ref_count_; return ref_count_ == 0;
Release(c) ==
    LET d == (c - 1) % SizeModulus
    IN  [count |-> d, result |-> d = 0]

\* sizeof(Concrete) of the object's concrete type: allocator.allocate(1).
SizeOf(o) == 8 * (o + 1)

\* The values of the caller's cetl::optional<Failure>.
FailureValues == {"nullopt", "MemoryError", "OtherFailure"}

\* The memory resource before any allocation.
EmptyArena ==
    [allocated_bytes |-> 0, allocations |-> {},
     total_allocated_bytes |-> 0, total_deallocated_bytes |-> 0]

\* memory_resource::allocate: storage or null; a failing call allocates nothing.
Allocate(ar, ptr, size, ok) ==
    IF ok
    THEN [arena |-> [allocated_bytes |-> ar.allocated_bytes + size,
                     allocations |-> ar.allocations \cup {[ptr |-> ptr, size |-> size]},
                     total_allocated_bytes |-> ar.total_allocated_bytes + size,
                     total_deallocated_bytes |-> ar.total_deallocated_bytes],
          storage |-> ptr]
    ELSE [arena |-> ar, storage |-> Null]

\* memory_resource::deallocate
Deallocate(ar, ptr, size) ==
    [allocated_bytes |-> ar.allocated_bytes - size,
     allocations |-> ar.allocations \ {[ptr |-> ptr, size |-> size]},
     total_allocated_bytes |-> ar.total_allocated_bytes,
     total_deallocated_bytes |-> ar.total_deallocated_bytes + size]

\* A createWithPmr that resets the out-failure on success.
CreateClearsFailure(ar, ptr, size, ok, out) ==
    LET a == Allocate(ar, ptr, size, ok)
    IN  IF a.storage # Null
        THEN [arena |-> a.arena, concrete |-> a.storage, out_failure |-> "nullopt",
              allocCalls |-> 1]
        ELSE [arena |-> a.arena, concrete |-> Null, out_failure |-> "MemoryError",
              allocCalls |-> 1]

\* SharedObject::createWithPmr: one allocate(1); construct and return the object, or
\* set out_failure = MemoryError{} and return nullptr.
CreateWithPmr(ar, ptr, size, ok, out) ==
    LET a == Allocate(ar, ptr, size, ok)
    IN  IF a.storage # Null
        THEN [arena |-> a.arena, concrete |-> a.storage, out_failure |-> out,
              allocCalls |-> 1]
        ELSE [arena |-> a.arena, concrete |-> Null, out_failure |-> "MemoryError",
              allocCalls |-> 1]

\* A destroyWithPmr that runs the destructor and forgets to deallocate.
DestroyKeepsStorage(ar, ptr, size) == ar

\* SharedObject::destroyWithPmr: concrete->~Concrete(); allocator.deallocate(concrete, 1)
\* (what the destructor releases is part of the drain step).
DestroyWithPmr(ar, ptr, size) == Deallocate(ar, ptr, size)

\* ------------------------------------------------------------ helpers
Remove(s, x) == SelectSeq(s, LAMBDA y : y # x)

Range(s) == {s[i] : i \in 1..Len(s)}

NoCall == [op |-> "none", obj |-> Null, origin |-> Null, ret |-> FALSE, pre |-> FALSE]

\* Anchors are constructed pointing to themselves; objects with null links.
InitLinks ==
    /\ prev_node = [x \in Nodes |-> IF x \in Anchors THEN x ELSE Null]
    /\ next_node = [x \in Nodes |-> IF x \in Anchors THEN x ELSE Null]

InitRefVars ==
    /\ held = [o \in Objs |-> 0]
    /\ nTrue = [o \in Objs |-> 0]
    /\ zeros = [o \in Objs |-> 0]

CbIds == 1..MaxCbs

NoPoll == [start |-> 0, wake |-> 0, timeout |-> 0, outcome |-> "none", ret |-> "nullopt"]

InitLoopVars ==
    /\ now = StartupTime
    /\ cbs = [i \in CbIds |-> [status |-> "none", due |-> 0]]
    /\ fired = <<>>
    /\ spin_result = [worst_lateness |-> 0, next_exec_time |-> Null]
    /\ worst_lateness = 0
    /\ opt_timeout = OneSecond
    /\ pc = "while"
    /\ poll = NoPoll
    /\ spun = FALSE
    /\ expectFailed = FALSE

InitLifeVars ==
    /\ handles = [o \in Objs |-> 0]
    /\ dep = [o \in Objs |-> Null]
    /\ destroyLog = [o \in Objs |-> <<>>]
    /\ afterDestroy = FALSE
    /\ exec = "Idle"
    /\ cbOwner = Null
    /\ mark = [o \in Objs |-> "none"]
    /\ arena = EmptyArena
    /\ out_failure = "nullopt"

InitListVars ==
    /\ unrefOrder = [a \in Anchors |-> <<>>]
    /\ drainLog = [a \in Anchors |-> <<>>]

\* ------------------------------------------------------- the list alone
\* Any sequence of linkAsUnreferenced / unlinkIfReferenced calls and drain steps
\* on constructed objects and two self-linked anchors.

InitList ==
    /\ InitLinks
    /\ ref_count_ \in [Objs -> {0, 1}]
    /\ objState = [o \in Objs |-> "live"]
    /\ InitListVars
    /\ InitRefVars
    /\ InitLifeVars
    /\ InitLoopVars
    /\ last = NoCall

ListLink(o, a) ==
    /\ objState[o] = "live"
    /\ LET r == LinkAsUnreferenced(prev_node, next_node, o, a)
           was == IsLinked(prev_node, next_node, o)
       IN  /\ prev_node' = r.prev
           /\ next_node' = r.next
           /\ unrefOrder' = IF was THEN unrefOrder
                            ELSE [unrefOrder EXCEPT ![a] = Append(@, o)]
           /\ last' = [op |-> "link", obj |-> o, origin |-> a, ret |-> FALSE, pre |-> was]
    /\ UNCHANGED <<ref_count_, objState, drainLog, refVars, lifeVars, loopVars>>

ListUnlink(o) ==
    /\ objState[o] = "live"
    /\ LET r == UnlinkIfReferenced(prev_node, next_node, o)
           was == IsLinked(prev_node, next_node, o)
       IN  /\ prev_node' = r.prev
           /\ next_node' = r.next
           /\ unrefOrder' = [a \in Anchors |-> Remove(unrefOrder[a], o)]
           /\ last' = [op |-> "unlink", obj |-> o, origin |-> Null, ret |-> FALSE, pre |-> was]
    /\ UNCHANGED <<ref_count_, objState, drainLog, refVars, lifeVars, loopVars>>

\* One step of the drain of ledger a: detach the node after the anchor, destroy it.
ListDrainStep(a) ==
    /\ next_node[a] # a
    /\ LET o == next_node[a]
           r == UnlinkIfReferenced(prev_node, next_node, o)
       IN  /\ o \in Objs
           /\ objState[o] = "live"
           /\ prev_node' = r.prev
           /\ next_node' = r.next
           /\ objState' = [objState EXCEPT ![o] = "dead"]
           /\ drainLog' = [drainLog EXCEPT ![a] = Append(@, o)]
           /\ last' = [op |-> "drain", obj |-> o, origin |-> a, ret |-> FALSE, pre |-> TRUE]
    /\ UNCHANGED <<ref_count_, unrefOrder, refVars, lifeVars, loopVars>>

NextList ==
    \/ \E o \in Objs, a \in Anchors : ListLink(o, a)
    \/ \E o \in Objs : ListUnlink(o)
    \/ \E a \in Anchors : ListDrainStep(a)

SpecList == InitList /\ [][NextList]_vars

\* ----------------------------------------------- the reference count alone
\* Any sequence of retain() / release() / isReferenced() calls on an object, the
\* releases never outnumbering the retains.

RefObjs == {o \in Objs : o <= NumRefObjs}

InitRef ==
    /\ InitLinks
    /\ ref_count_ = [o \in Objs |-> 0]
    /\ objState = [o \in Objs |-> "live"]
    /\ InitListVars
    /\ InitRefVars
    /\ InitLifeVars
    /\ InitLoopVars
    /\ last = NoCall

RefRetain(o) ==
    /\ held[o] < MaxRefs
    /\ nTrue[o] < MaxZeros
    /\ ref_count_' = [ref_count_ EXCEPT ![o] = Retain(@)]
    /\ held' = [held EXCEPT ![o] = @ + 1]
    /\ last' = [op |-> "retain", obj |-> o, origin |-> Null, ret |-> FALSE,
                pre |-> IsReferenced(ref_count_[o])]
    /\ UNCHANGED <<prev_node, next_node, objState, listVars, nTrue, zeros, lifeVars, loopVars>>

RefRelease(o) ==
    /\ held[o] > 0
    /\ LET r == Release(ref_count_[o])
       IN  /\ ref_count_' = [ref_count_ EXCEPT ![o] = r.count]
           /\ nTrue' = [nTrue EXCEPT ![o] = IF r.result THEN @ + 1 ELSE @]
           /\ last' = [op |-> "release", obj |-> o, origin |-> Null, ret |-> r.result,
                       pre |-> IsReferenced(ref_count_[o])]
    /\ held' = [held EXCEPT ![o] = @ - 1]
    /\ zeros' = [zeros EXCEPT ![o] = IF held[o] = 1 THEN @ + 1 ELSE @]
    /\ UNCHANGED <<prev_node, next_node, objState, listVars, lifeVars, loopVars>>

RefIsReferenced(o) ==
    /\ last' = [op |-> "isReferenced", obj |-> o, origin |-> Null,
                ret |-> IsReferenced(ref_count_[o]), pre |-> FALSE]
    /\ UNCHANGED <<prev_node, next_node, ref_count_, objState, listVars, refVars, lifeVars, loopVars>>

NextRef ==
    \/ \E o \in RefObjs : RefRetain(o)
    \/ \E o \in RefObjs : RefRelease(o)
    \/ \E o \in RefObjs : RefIsReferenced(o)

SpecRef == InitRef /\ [][NextRef]_vars

\* ------------------------------------- the reference count, misused
\* As above, and a holder may call release() once more than it retained.
\* CETL_DEBUG_ASSERT(ref_count_ > 0) stops a debug build; a build without debug
\* assertions goes on to --ref_count_.
Builds == {"debug", "release"}

RefReleaseAtZero(o, build) ==
    /\ last.op # "assertFailed"
    /\ held[o] = 0
    /\ ref_count_[o] = 0
    /\ IF build = "debug"
       THEN /\ last' = [op |-> "assertFailed", obj |-> o, origin |-> Null, ret |-> FALSE,
                        pre |-> FALSE]
            /\ UNCHANGED <<ref_count_, nTrue>>
       ELSE LET r == Release(ref_count_[o])
            IN  /\ ref_count_' = [ref_count_ EXCEPT ![o] = r.count]
                /\ nTrue' = [nTrue EXCEPT ![o] = IF r.result THEN @ + 1 ELSE @]
                /\ last' = [op |-> "releaseAtZero", obj |-> o, origin |-> Null,
                            ret |-> r.result, pre |-> FALSE]
    /\ UNCHANGED <<prev_node, next_node, objState, listVars, held, zeros, lifeVars, loopVars>>

Running == last.op # "assertFailed"

DefectRetain(o) == Running /\ zeros[o] < MaxZeros /\ RefRetain(o)

DefectRelease(o) == Running /\ RefRelease(o)

DefectIsReferenced(o) == Running /\ RefIsReferenced(o)

NextDefect ==
    \/ \E o \in RefObjs : DefectRetain(o)
    \/ \E o \in RefObjs : DefectRelease(o)
    \/ \E o \in RefObjs : DefectIsReferenced(o)
    \/ \E o \in RefObjs, build \in Builds : RefReleaseAtZero(o, build)

SpecDefect == InitRef /\ [][NextDefect]_vars

\* ------------------------------------------- the lifecycle under the executor
\* The application creates objects, takes and drops handles (outside a spin or
\* inside a callback of a spin); a spin runs its callbacks, then drains the ledger;
\* the teardown drains once more.

\* The objects the application creates.
LifeObjs == {o \in Objs : o <= NumLifeObjs}

Init ==
    /\ InitLinks
    /\ ref_count_ = [o \in Objs |-> 0]
    /\ objState = [o \in Objs |-> "none"]
    /\ InitListVars
    /\ InitRefVars
    /\ InitLifeVars
    /\ InitLoopVars
    /\ last = NoCall

AppMayRun == exec \in {"Idle", "Running"}

LedgerEmpty == next_node[MainAnchor] = MainAnchor /\ prev_node[MainAnchor] = MainAnchor

\* The next object identity: objects are created in the order 1, 2, ...
NextObj == IF \E o \in LifeObjs : objState[o] = "none"
           THEN CHOOSE o \in LifeObjs : objState[o] = "none" /\ \A q \in LifeObjs : q < o => objState[q] # "none"
           ELSE Null

\* A factory: createWithPmr, then the first handle retains the object; the new
\* object may itself hold a reference to an existing object d.
AppCreate(ok, before, d) ==
    /\ AppMayRun
    /\ NextObj # Null
    /\ d # Null => (objState[d] = "live" /\ ref_count_[d] < MaxHandles)
    /\ LET o == NextObj
           c == CreateWithPmr(arena, o, SizeOf(o), ok, before)
       IN  /\ arena' = c.arena
           /\ out_failure' = c.out_failure
           /\ last' = [op |-> "create", obj |-> c.concrete, origin |-> Null, ret |-> ok,
                       pre |-> FALSE, before |-> before, allocCalls |-> c.allocCalls]
           /\ IF c.concrete # Null
              THEN LET u == IF d # Null
                            THEN UnlinkIfReferenced(prev_node, next_node, d)
                            ELSE [prev |-> prev_node, next |-> next_node]
                   IN  /\ objState' = [objState EXCEPT ![o] = "live"]
                       /\ ref_count_' = [x \in Objs |->
                                IF x = o THEN Retain(0)
                                ELSE IF x = d THEN Retain(ref_count_[d])
                                ELSE ref_count_[x]]
                       /\ handles' = [handles EXCEPT ![o] = 1]
                       /\ dep' = [dep EXCEPT ![o] = d]
                       /\ prev_node' = u.prev
                       /\ next_node' = u.next
                       /\ mark' = [x \in Objs |->
                                IF x = d /\ ref_count_[d] = 0
                                THEN (IF mark[d] = "released" THEN "resurrectedCb" ELSE "resurrected")
                                ELSE mark[x]]
              ELSE UNCHANGED <<objState, ref_count_, handles, dep, prev_node, next_node, mark>>
    /\ UNCHANGED <<destroyLog, afterDestroy, exec, cbOwner, listVars, refVars, loopVars>>

\* A handle is taken to an existing object (a copy, or a lookup of an object that
\* may be pending destruction): retain(), then unlinkIfReferenced().
AppAcquire(o) ==
    /\ AppMayRun
    /\ objState[o] = "live"
    /\ handles[o] < MaxHandles
    /\ LET u == UnlinkIfReferenced(prev_node, next_node, o)
       IN  /\ ref_count_' = [ref_count_ EXCEPT ![o] = Retain(@)]
           /\ prev_node' = u.prev
           /\ next_node' = u.next
    /\ handles' = [handles EXCEPT ![o] = @ + 1]
    /\ mark' = [mark EXCEPT ![o] =
                    IF ref_count_[o] = 0
                    THEN (IF @ = "released" THEN "resurrectedCb" ELSE "resurrected")
                    ELSE @]
    /\ last' = NoCall
    /\ UNCHANGED <<objState, dep, destroyLog, afterDestroy, exec, cbOwner, arena,
                   out_failure, listVars, refVars, loopVars>>

\* A handle is dropped: release(), and linkAsUnreferenced(anchor) when it returned true.
AppDrop(o) ==
    /\ AppMayRun
    /\ handles[o] > 0
    /\ LET r == Release(ref_count_[o])
           l == IF r.result
                THEN LinkAsUnreferenced(prev_node, next_node, o, MainAnchor)
                ELSE [prev |-> prev_node, next |-> next_node]
       IN  /\ ref_count_' = [ref_count_ EXCEPT ![o] = r.count]
           /\ prev_node' = l.prev
           /\ next_node' = l.next
           /\ mark' = [mark EXCEPT ![o] =
                           IF r.result
                           THEN (IF exec = "Running" THEN "released" ELSE "none")
                           ELSE @]
    /\ handles' = [handles EXCEPT ![o] = @ - 1]
    /\ afterDestroy' = (afterDestroy \/ objState[o] = "dead")
    /\ last' = NoCall
    /\ UNCHANGED <<objState, dep, destroyLog, exec, cbOwner, arena, out_failure,
                   listVars, refVars, loopVars>>

\* spinOnce starts: a due callback runs (on behalf of an object, or of none), or none is due.
SpinBegin(owner) ==
    /\ exec = "Idle"
    /\ owner # Null => objState[owner] = "live"
    /\ exec' = "Running"
    /\ cbOwner' = owner
    /\ mark' = [o \in Objs |->
                    IF mark[o] = "released" THEN "none"
                    ELSE IF mark[o] = "resurrectedCb" THEN "resurrected"
                    ELSE mark[o]]
    /\ last' = NoCall
    /\ UNCHANGED <<prev_node, next_node, ref_count_, objState, handles, dep, destroyLog,
                   afterDestroy, arena, out_failure, listVars, refVars, loopVars>>

\* The running callback returns and the next due callback starts.
CallbackNext(owner) ==
    /\ exec = "Running"
    /\ owner # Null => objState[owner] = "live"
    /\ cbOwner' = owner
    /\ last' = NoCall
    /\ UNCHANGED <<prev_node, next_node, ref_count_, objState, handles, dep, destroyLog,
                   afterDestroy, exec, mark, arena, out_failure, listVars, refVars, loopVars>>

\* The last due callback has returned: spinOnce goes on to drain the ledger.
CallbacksDone ==
    /\ exec = "Running"
    /\ exec' = "Draining"
    /\ cbOwner' = Null
    /\ last' = NoCall
    /\ UNCHANGED <<prev_node, next_node, ref_count_, objState, handles, dep, destroyLog,
                   afterDestroy, mark, arena, out_failure, listVars, refVars, loopVars>>

\* One step of the drain: detach the node after the anchor and destroy() it. Its
\* destructor drops the reference the object holds (release(), linkAsUnreferenced
\* when it returned true), then its storage goes back to the memory resource.
DrainStep ==
    /\ exec \in {"Draining", "TearDown"}
    /\ next_node[MainAnchor] # MainAnchor
    /\ LET o == next_node[MainAnchor]
           u == UnlinkIfReferenced(prev_node, next_node, o)
           d == dep[o]
           r == IF d # Null THEN Release(ref_count_[d])
                ELSE [count |-> 0, result |-> FALSE]
           l == IF r.result
                THEN LinkAsUnreferenced(u.prev, u.next, d, MainAnchor)
                ELSE u
       IN  /\ o \in Objs
           /\ destroyLog' = [destroyLog EXCEPT ![o] =
                    Append(@, [referenced |-> IsReferenced(ref_count_[o]),
                               linked |-> IsLinked(u.prev, u.next, o),
                               exec |-> exec])]
           /\ objState' = [objState EXCEPT ![o] = "dead"]
           /\ ref_count_' = IF d # Null THEN [ref_count_ EXCEPT ![d] = r.count]
                            ELSE ref_count_
           /\ prev_node' = l.prev
           /\ next_node' = l.next
           /\ dep' = [dep EXCEPT ![o] = Null]
           /\ mark' = IF r.result THEN [mark EXCEPT ![d] = "none"] ELSE mark
           /\ arena' = DestroyWithPmr(arena, o, SizeOf(o))
           /\ afterDestroy' = (\/ afterDestroy
                               \/ objState[o] = "dead"
                               \/ (d # Null /\ objState[d] = "dead"))
    /\ last' = NoCall
    /\ UNCHANGED <<handles, exec, cbOwner, out_failure, listVars, refVars, loopVars>>

\* The drain has reached the anchor again: spinOnce returns.
SpinReturn ==
    /\ exec = "Draining"
    /\ next_node[MainAnchor] = MainAnchor
    /\ exec' = "Idle"
    /\ last' = [NoCall EXCEPT !.op = "spinReturn"]
    /\ UNCHANGED <<prev_node, next_node, ref_count_, objState, handles, dep, destroyLog,
                   afterDestroy, cbOwner, mark, arena, out_failure, listVars, refVars, loopVars>>

\* TearDown: executor_.releaseTemporaryResources() drains the ledger.
TearDownBegin ==
    /\ exec = "Idle"
    /\ exec' = "TearDown"
    /\ last' = NoCall
    /\ UNCHANGED <<prev_node, next_node, ref_count_, objState, handles, dep, destroyLog,
                   afterDestroy, cbOwner, mark, arena, out_failure, listVars, refVars, loopVars>>

\* The teardown's drain is over: the memory resource is inspected.
TearDownEnd ==
    /\ exec = "TearDown"
    /\ next_node[MainAnchor] = MainAnchor
    /\ exec' = "Done"
    /\ last' = NoCall
    /\ UNCHANGED <<prev_node, next_node, ref_count_, objState, handles, dep, destroyLog,
                   afterDestroy, cbOwner, mark, arena, out_failure, listVars, refVars, loopVars>>

Next ==
    \/ \E ok \in BOOLEAN, before \in FailureValues, d \in LifeObjs \cup {Null} :
            AppCreate(ok, before, d)
    \/ \E o \in LifeObjs : AppAcquire(o)
    \/ \E o \in LifeObjs : AppDrop(o)
    \/ \E owner \in LifeObjs \cup {Null} : SpinBegin(owner)
    \/ \E owner \in LifeObjs \cup {Null} : CallbackNext(owner)
    \/ CallbacksDone
    \/ DrainStep
    \/ SpinReturn
    \/ TearDownBegin
    \/ TearDownEnd

Spec == Init /\ [][Next]_vars

\* The drain loop and the return of spinOnce / releaseTemporaryResources run to
\* completion on the single thread: nothing suspends them.
SpecFair ==
    /\ Spec
    /\ WF_vars(DrainStep)
    /\ WF_vars(SpinReturn)
    /\ WF_vars(TearDownEnd)

\* ------------------------------------------------------- the main loop
\* The example's main loop over the executor: spinOnce, the running maximum of
\* the lateness, the timeout of the poll, the poll.

MaxOf(S) == CHOOSE x \in S : \A y \in S : y <= x

MinOf(S) == CHOOSE x \in S : \A y \in S : x <= y

\* const TimePoint deadline = startup_time_ + run_duration_ + 500ms;
Deadline == StartupTime + RunSeconds * OneSecond + HalfSecond

\* The callbacks a spinOnce at time t has to execute.
DueAt(c, t) == {i \in CbIds : c[i].status = "pending" /\ c[i].due <= t}

\* Due-time order, ties by registration order.
Before(c, i, j) == c[i].due < c[j].due \/ (c[i].due = c[j].due /\ i < j)

InRegistrationOrder(c, S) ==
    LET F[T \in SUBSET S] ==
            IF T = {} THEN <<>>
            ELSE LET m == CHOOSE i \in T : \A j \in T : i <= j
                 IN  <<m>> \o F[T \ {m}]
    IN  F[S]

InDueOrder(c, S) ==
    LET F[T \in SUBSET S] ==
            IF T = {} THEN <<>>
            ELSE LET m == CHOOSE i \in T : \A j \in T \ {i} : Before(c, i, j)
                 IN  <<m>> \o F[T \ {m}]
    IN  F[S]

\* spinOnce at time t: the executed callbacks in order, the callbacks afterwards,
\* and the SpinResult.
SpinOnce(c, t) ==
    LET D     == DueAt(c, t)
        order == InDueOrder(c, D)
        after == [i \in CbIds |-> IF i \in D THEN [status |-> "fired", due |-> 0] ELSE c[i]]
        P     == {i \in CbIds : after[i].status = "pending"}
    IN  [fired  |-> [k \in 1..Len(order) |->
                        [id |-> order[k], due |-> c[order[k]].due, at |-> t]],
         cbs    |-> after,
         result |-> [worst_lateness |-> IF D = {} THEN 0
                                        ELSE MaxOf({t - c[i].due : i \in D}),
                     next_exec_time |-> IF P = {} THEN Null
                                        ELSE MinOf({after[i].due : i \in P})]]

\* worst_lateness = std::max(worst_lateness, spin_result.worst_lateness);
AccumulateLast(w, l) == l

Accumulate(w, l) == IF w < l THEN l ELSE w

\* opt_timeout{1s}; if next_exec_time has a value,
\* opt_timeout = std::min(*opt_timeout, next_exec_time.value() - executor_.now())
OptTimeoutUncapped(next, t) == IF next # Null THEN next - t ELSE OneSecond

OptTimeout(next, t) ==
    IF next # Null
    THEN (IF next - t < OneSecond THEN next - t ELSE OneSecond)
    ELSE OneSecond

\* What the poll returns: an error only when the polling primitive failed.
PollOutcomes == {"timeout", "ready", "fatal"}

PollTimeoutIsError(outcome) == IF outcome = "ready" THEN "nullopt" ELSE "error"

PollResult(outcome) == IF outcome = "fatal" THEN "error" ELSE "nullopt"

\* How long a poll with this timeout may block.
MaxWait(timeout) == IF timeout > 0 THEN timeout ELSE 0

InitLoop ==
    /\ InitLinks
    /\ ref_count_ = [o \in Objs |-> 0]
    /\ objState = [o \in Objs |-> "none"]
    /\ InitListVars
    /\ InitRefVars
    /\ InitLifeVars
    /\ InitLoopVars
    /\ last = NoCall

otherVars == <<prev_node, next_node, ref_count_, objState, last, listVars, refVars, lifeVars>>

\* A subsystem registers a callback; registration numbers grow.
LoopRegister(due) ==
    /\ pc = "while"
    /\ \E i \in CbIds :
        /\ cbs[i].status = "none"
        /\ \A j \in CbIds : j < i => cbs[j].status # "none"
        /\ cbs' = [cbs EXCEPT ![i] = [status |-> "pending", due |-> due]]
    /\ UNCHANGED <<now, fired, spin_result, worst_lateness, opt_timeout, pc, poll, spun,
                   expectFailed, otherVars>>

\* A registered callback is cancelled before it fires.
LoopCancel(i) ==
    /\ pc = "while"
    /\ cbs[i].status = "pending"
    /\ cbs' = [cbs EXCEPT ![i] = [status |-> "cancelled", due |-> 0]]
    /\ UNCHANGED <<now, fired, spin_result, worst_lateness, opt_timeout, pc, poll, spun,
                   expectFailed, otherVars>>

\* Time passes while the loop executes.
Tick ==
    /\ pc \in {"while", "spin", "after"}
    /\ now < Deadline
    /\ now' = now + 1
    /\ UNCHANGED <<cbs, fired, spin_result, worst_lateness, opt_timeout, pc, poll, spun,
                   expectFailed, otherVars>>

\* while (executor_.now() < deadline); spin_result and opt_timeout are local to
\* the loop's body.
LoopTest ==
    /\ pc = "while"
    /\ pc' = IF now < Deadline THEN "spin" ELSE "done"
    /\ spun' = FALSE
    /\ fired' = <<>>
    /\ spin_result' = [worst_lateness |-> 0, next_exec_time |-> Null]
    /\ opt_timeout' = OneSecond
    /\ poll' = NoPoll
    /\ UNCHANGED <<now, cbs, worst_lateness, expectFailed, otherVars>>

\* const auto spin_result = executor_.spinOnce();
LoopSpinOnce ==
    /\ pc = "spin"
    /\ LET r == SpinOnce(cbs, now)
       IN  /\ fired' = r.fired
           /\ cbs' = r.cbs
           /\ spin_result' = r.result
    /\ spun' = TRUE
    /\ pc' = "after"
    /\ UNCHANGED <<now, worst_lateness, opt_timeout, poll, expectFailed, otherVars>>

\* The running maximum and the timeout of the poll.
LoopAfterSpin ==
    /\ pc = "after"
    /\ worst_lateness' = Accumulate(worst_lateness, spin_result.worst_lateness)
    /\ opt_timeout' = OptTimeout(spin_result.next_exec_time, now)
    /\ pc' = "poll"
    /\ UNCHANGED <<now, cbs, fired, spin_result, poll, spun, expectFailed, otherVars>>

\* EXPECT_THAT(executor_.pollAwaitableResourcesFor(opt_timeout), Eq(nullopt));
\* the poll blocks for w ticks: for the whole timeout when nothing gets ready.
LoopPoll(outcome, w) ==
    /\ pc = "poll"
    /\ w <= MaxWait(opt_timeout)
    /\ outcome = "timeout" => w = MaxWait(opt_timeout)
    /\ now' = now + w
    /\ poll' = [start |-> now, wake |-> now + w, timeout |-> opt_timeout,
                outcome |-> outcome, ret |-> PollResult(outcome)]
    /\ expectFailed' = (expectFailed \/ PollResult(outcome) # "nullopt")
    /\ pc' = "while"
    /\ UNCHANGED <<cbs, fired, spin_result, worst_lateness, opt_timeout, spun, otherVars>>

NextLoop ==
    \/ \E due \in StartupTime..Deadline : LoopRegister(due)
    \/ \E i \in CbIds : LoopCancel(i)
    \/ Tick
    \/ LoopTest
    \/ LoopSpinOnce
    \/ LoopAfterSpin
    \/ \E outcome \in PollOutcomes, w \in 0..MaxWait(opt_timeout) : LoopPoll(outcome, w)

SpecLoop == InitLoop /\ [][NextLoop]_vars

\* ------------------------------------------------------------------ claims

\* C1: on an object with count > 0, release() decrements the count by exactly one
\* and returns true iff the count is zero after the call; retain() increments the
\* count by exactly one (it has no failure result); isReferenced() is true iff the
\* count is greater than zero.
C1_RetainReleaseContract ==
    /\ [][\A o \in RefObjs :
            /\ (last'.op = "retain" /\ last'.obj = o)
                    => ref_count_'[o] = ref_count_[o] + 1
            /\ (last'.op = "release" /\ last'.obj = o /\ ref_count_[o] > 0)
                    => /\ ref_count_'[o] = ref_count_[o] - 1
                       /\ last'.ret = (ref_count_'[o] = 0)]_vars
    /\ [](last.op = "isReferenced" => (last.ret <=> ref_count_[last.obj] > 0))

\* A release() brought a count to zero and returned true, another object being still
\* referenced.
C1_Witness ==
    /\ last.op = "release" /\ last.ret /\ ref_count_[last.obj] = 0
    /\ \E o \in RefObjs : o # last.obj /\ ref_count_[o] = 1 /\ nTrue[o] = 0 /\ zeros[o] = 0

\* C2 as stated: in a sequence whose releases never outnumber its retains, no
\* release() returns true before the sequence ends (isReferenced() stays true until
\* then) and release() returns true at most once.
C2_Original ==
    \A o \in RefObjs :
        /\ nTrue[o] <= 1
        /\ held[o] > 0 => (IsReferenced(ref_count_[o]) /\ nTrue[o] = 0)

\* C2, amended: isReferenced() is true exactly while the retains outnumber the
\* releases, and a release() returns true exactly when it makes them equal: once
\* for every return of the count to zero.
C2_ReferenceSymmetry ==
    /\ \A o \in RefObjs :
        /\ IsReferenced(ref_count_[o]) <=> held[o] > 0
        /\ nTrue[o] = zeros[o]
    /\ last.op = "release" => (last.ret <=> held[last.obj] = 0)

\* The count of an object returned to zero twice, release() returning true both times.
C2_Witness ==
    \E o \in RefObjs : nTrue[o] = 2 /\ held[o] = 0 /\ last.op = "release" /\ last.obj = o

\* C3: the objects linked into a ledger are met by the traversal from anchor.next
\* in the order in which they were linked, so what the drain has destroyed followed
\* by what it will still visit is the order of unreferencing.
C3_FifoDrainOrder ==
    \A a \in Anchors : drainLog[a] \o Walk(next_node, a) = unrefOrder[a]

\* Three objects were linked in the order 3, 1, 2 (one of them unlinked and linked
\* again in between) and the drain destroyed them in that order.
C3_Witness ==
    /\ drainLog[MainAnchor] = <<3, 1, 2>>
    /\ last.op = "drain"

\* C4: linkAsUnreferenced on an object that is already linked changes no link of
\* any node, whichever anchor is passed; no object is met twice by a traversal.
C4_IdempotentLinkage ==
    /\ [][(last'.op = "link" /\ last'.pre)
            => (prev_node' = prev_node /\ next_node' = next_node)]_vars
    /\ [](\A a \in Anchors :
            LET w == Walk(next_node, a)
            IN  \A i, j \in 1..Len(w) : w[i] = w[j] => i = j)

\* An object linked second of three into the main ledger was linked again, with the
\* other anchor as argument.
C4_Witness ==
    /\ last.op = "link" /\ last.pre /\ last.origin = OtherAnchor
    /\ Len(Walk(next_node, MainAnchor)) = 3
    /\ Walk(next_node, MainAnchor)[2] = last.obj

\* C5: destroy() is invoked at most once per object, and an object retained again
\* after its count reached zero (resurrected) is not destroyed by a drain for as long
\* as it stays referenced.
C5_NoDoubleDestroy ==
    \A o \in Objs :
        /\ Len(destroyLog[o]) <= 1
        /\ mark[o] \in {"resurrected", "resurrectedCb"}
                => (objState[o] = "live" /\ destroyLog[o] = <<>>)

\* A spin has returned whose callbacks released an object to zero and retained it
\* again: its drain destroyed another object and left the resurrected one alone.
C5_Witness ==
    /\ last.op = "spinReturn"
    /\ \E o, q \in Objs :
            /\ mark[o] = "resurrectedCb" /\ objState[o] = "live"
            /\ mark[q] = "released" /\ objState[q] = "dead"

\* C6: every destroy() is made by a drain step on an object that is not referenced
\* and not linked at that moment, and nothing operates on the object afterwards: no
\* handle, no link, no ledger and no other object refers to it.
C6_DestroyLastAndUnlinked ==
    /\ \A o \in Objs : \A i \in 1..Len(destroyLog[o]) :
            /\ ~destroyLog[o][i].referenced
            /\ ~destroyLog[o][i].linked
            /\ destroyLog[o][i].exec \in {"Draining", "TearDown"}
    /\ ~afterDestroy
    /\ \A o \in Objs : objState[o] = "dead" =>
            /\ handles[o] = 0
            /\ prev_node[o] = Null /\ next_node[o] = Null
            /\ \A x \in Nodes : prev_node[x] # o /\ next_node[x] # o
            /\ \A q \in Objs : dep[q] # o

\* Two objects were destroyed, one by the drain of a spin, one by the teardown's.
C6_Witness ==
    /\ objState[1] = "dead" /\ objState[2] = "dead"
    /\ destroyLog[2][1].exec = "Draining"
    /\ destroyLog[1][1].exec = "TearDown"

C8_DestroyOnlyAtSafePoint ==
    /\ \A o \in Objs : \A i \in 1..Len(destroyLog[o]) : destroyLog[o][i].exec # "Running"
    /\ exec = "Running" =>
            /\ \A o \in Objs : mark[o] = "released" =>
                    /\ objState[o] = "live"
                    /\ destroyLog[o] = <<>>
                    /\ o \in Range(Walk(next_node, MainAnchor))
            /\ cbOwner # Null => objState[cbOwner] = "live"

\* A callback running on behalf of an object released the last reference to it.
C8_Witness ==
    /\ exec = "Running"
    /\ cbOwner # Null
    /\ mark[cbOwner] = "released"
    /\ ref_count_[cbOwner] = 0

\* C9: a createWithPmr whose allocation fails returns nullptr, sets the out-failure
\* to MemoryError, constructs nothing and changes neither the arena's accounting nor
\* any object, after one allocate call; one whose allocation succeeds returns the
\* constructed object, accounted for by the arena, and leaves the out-failure as the
\* caller passed it.
C9_CreateWithPmr ==
    /\ [](last.op = "create" =>
            /\ last.allocCalls = 1
            /\ last.ret =>
                    /\ last.obj \in Objs
                    /\ objState[last.obj] = "live"
                    /\ out_failure = last.before
                    /\ [ptr |-> last.obj, size |-> SizeOf(last.obj)] \in arena.allocations
            /\ ~last.ret =>
                    /\ last.obj = Null
                    /\ out_failure = "MemoryError")
    /\ [][(last'.op = "create" /\ ~last'.ret) =>
            /\ arena' = arena
            /\ objState' = objState
            /\ ref_count_' = ref_count_
            /\ handles' = handles
            /\ prev_node' = prev_node /\ next_node' = next_node]_vars
    /\ [][(last'.op = "create" /\ last'.ret) =>
            /\ arena'.allocated_bytes = arena.allocated_bytes + SizeOf(last'.obj)
            /\ \A o \in Objs \ {last'.obj} : objState'[o] = objState[o]]_vars

\* The second creation failed: the first object is still there and accounted for.
C9_Witness ==
    /\ last.op = "create" /\ ~last.ret /\ last.before = "nullopt"
    /\ out_failure = "MemoryError"
    /\ objState[1] = "live" /\ objState[2] = "none"
    /\ arena.allocated_bytes = SizeOf(1)

RECURSIVE SumSizes(_)
SumSizes(S) == IF S = {} THEN 0
               ELSE LET o == CHOOSE x \in S : TRUE IN SizeOf(o) + SumSizes(S \ {o})

\* C10: the arena's outstanding allocations are those of the objects constructed and
\* not destroyed, each with its size, and its totals differ by the allocated bytes;
\* after a teardown with all handles released nothing is allocated and the totals
\* are equal.
C10_ArenaBalance ==
    /\ arena.allocations = {[ptr |-> o, size |-> SizeOf(o)] : o \in {x \in Objs : objState[x] = "live"}}
    /\ arena.allocated_bytes = SumSizes({x \in Objs : objState[x] = "live"})
    /\ arena.total_allocated_bytes = SumSizes({x \in Objs : objState[x] # "none"})
    /\ arena.total_deallocated_bytes = SumSizes({x \in Objs : objState[x] = "dead"})
    /\ (exec = "Done" /\ \A o \in Objs : handles[o] = 0) =>
            /\ arena.allocated_bytes = 0
            /\ arena.allocations = {}
            /\ arena.total_allocated_bytes = arena.total_deallocated_bytes

\* The teardown is over after two objects were created, the second holding a
\* reference to the first, and all handles were released.
C10_Witness ==
    /\ exec = "Done"
    /\ \A o \in Objs : handles[o] = 0
    /\ arena.total_deallocated_bytes = SizeOf(1) + SizeOf(2)
    /\ destroyLog[1] # <<>> /\ destroyLog[2] # <<>>

\* C14: invariant I1: prev_node and next_node of every node are both null or both
\* non-null, so the assertion at the start of linkAsUnreferenced and of
\* unlinkIfReferenced holds whenever either is called.
C14_BothOrNone ==
    \A x \in Nodes : BothOrNone(prev_node, next_node, x)

\* An object was unlinked from between two linked objects.
C14_Witness ==
    /\ last.op = "unlink" /\ last.pre
    /\ Len(Walk(next_node, MainAnchor)) = 2
    /\ prev_node[last.obj] = Null /\ next_node[last.obj] = Null

\* C16: unlinkIfReferenced on a linked object removes exactly that object: its
\* neighbours become adjacent, its links become null, no other link changes and the
\* other objects keep their order; on an unlinked object it changes nothing; undoing
\* a linkAsUnreferenced with it restores every link; none of this depends on the
\* reference count.
C16_UnlinkInverse ==
    /\ [][(last'.op = "unlink" /\ last'.pre) =>
            LET o == last'.obj
            IN  /\ prev_node'[o] = Null /\ next_node'[o] = Null
                /\ next_node'[prev_node[o]] = next_node[o]
                /\ prev_node'[next_node[o]] = prev_node[o]
                /\ \A x \in Nodes \ {o} :
                        /\ x # prev_node[o] => next_node'[x] = next_node[x]
                        /\ x # next_node[o] => prev_node'[x] = prev_node[x]
                /\ \A a \in Anchors :
                        Walk(next_node', a) = Remove(Walk(next_node, a), o)]_vars
    /\ [][(last'.op = "unlink" /\ ~last'.pre) =>
            (prev_node' = prev_node /\ next_node' = next_node)]_vars
    /\ [](\A o \in Objs, a \in Anchors :
            ~IsLinked(prev_node, next_node, o) =>
                LET l == LinkAsUnreferenced(prev_node, next_node, o, a)
                IN  UnlinkIfReferenced(l.prev, l.next, o)
                        = [prev |-> prev_node, next |-> next_node])

\* unlinkIfReferenced removed a linked object whose reference count is zero; two
\* objects stay linked in one ledger, one of them with a nonzero count.
C16_Witness ==
    /\ last.op = "unlink" /\ last.pre
    /\ ref_count_[last.obj] = 0
    /\ \E a \in Anchors : Len(Walk(next_node, a)) = 2
    /\ \E o \in Objs : ref_count_[o] = 1 /\ IsLinked(prev_node, next_node, o)

\* The nodes of the ring of anchor a.
RingOf(a) == {a} \cup Range(Walk(next_node, a))

\* C19: every anchor and the objects linked to it form one circular doubly linked
\* list: n.next.prev = n and n.prev.next = n for each of its nodes, the traversal
\* from the anchor comes back to the anchor having met each linked object exactly
\* once, the anchors stay linked, and no unlinked object is met.
C19_RingWellFormed ==
    /\ \A a \in Anchors :
            LET w == Walk(next_node, a)
            IN  /\ \A x \in RingOf(a) :
                        /\ next_node[x] # Null /\ prev_node[x] # Null
                        /\ prev_node[next_node[x]] = x
                        /\ next_node[prev_node[x]] = x
                /\ next_node[IF w = <<>> THEN a ELSE w[Len(w)]] = a
                /\ \A i, j \in 1..Len(w) : w[i] = w[j] => i = j
                /\ \A i \in 1..Len(w) : w[i] \in Objs /\ IsLinked(prev_node, next_node, w[i])
    /\ \A o \in Objs :
            IsLinked(prev_node, next_node, o)
                <=> Cardinality({a \in Anchors : o \in Range(Walk(next_node, a))}) = 1
    /\ \A o \in Objs :
            Cardinality({a \in Anchors : o \in Range(Walk(next_node, a))}) <= 1

\* Both ledgers hold objects: two in the main one, one just linked into the other.
C19_Witness ==
    /\ Len(Walk(next_node, MainAnchor)) = 2
    /\ Len(Walk(next_node, OtherAnchor)) = 1
    /\ last.op = "link" /\ ~last.pre /\ last.origin = OtherAnchor

C17_DrainTerminates ==
    /\ [][(exec \in {"Draining", "TearDown"} /\ LedgerEmpty) =>
            /\ objState' = objState
            /\ destroyLog' = destroyLog
            /\ arena' = arena
            /\ prev_node' = prev_node /\ next_node' = next_node]_vars
    /\ [][destroyLog' # destroyLog =>
            \E o \in Objs :
                /\ objState[o] = "live" /\ objState'[o] = "dead"
                /\ o = next_node[MainAnchor]
                /\ destroyLog' = [destroyLog EXCEPT ![o] = Append(@, destroyLog'[o][1])]
                /\ destroyLog[o] = <<>>
                /\ \A q \in Objs \ {o} : objState'[q] = objState[q]]_vars
    /\ (exec = "Draining") ~> (exec = "Idle" /\ LedgerEmpty)
    /\ (exec = "TearDown") ~> (exec = "Done" /\ LedgerEmpty)

\* During a drain the destroy() of an object has linked the object it referred to
\* into the ledger being drained.
C17_Witness ==
    /\ exec = "Draining"
    /\ objState[2] = "dead" /\ destroyLog[2] # <<>>
    /\ objState[1] = "live" /\ next_node[MainAnchor] = 1 /\ ref_count_[1] = 0
    /\ destroyLog[1] = <<>>

\* C18: a release() on a count that is already zero is never taken for a valid
\* call: no object without referrers is reported referenced by isReferenced().
C18_NoSilentWrap ==
    \A o \in RefObjs : held[o] = 0 => ~IsReferenced(ref_count_[o])

\* C11: one spinOnce executes every registered, not cancelled callback whose due
\* time is <= now, each once, in non-decreasing due-time order with ties in
\* registration order; callbacks due in the future, cancelled callbacks and
\* callbacks already executed do not fire, and nothing fires outside spinOnce.
C11_CallbackOrdering ==
    /\ [][(pc = "spin" /\ pc' = "after") =>
            LET D == {i \in CbIds : cbs[i].status = "pending" /\ cbs[i].due <= now}
            IN  /\ Len(fired') = Cardinality(D)
                /\ {fired'[k].id : k \in 1..Len(fired')} = D
                /\ \A k \in 1..Len(fired') :
                       /\ fired'[k].due = cbs[fired'[k].id].due
                       /\ fired'[k].due <= now
                /\ \A k, l \in 1..Len(fired') : k < l =>
                       \/ fired'[k].due < fired'[l].due
                       \/ /\ fired'[k].due = fired'[l].due
                          /\ fired'[k].id < fired'[l].id
                /\ \A i \in D : cbs'[i].status = "fired"
                /\ \A i \in CbIds \ D : cbs'[i] = cbs[i]]_vars
    /\ [][pc # "spin" =>
            \A i \in CbIds : cbs'[i].status = "fired" => cbs[i].status = "fired"]_vars

\* A spinOnce has executed two callbacks, the later registered one first because
\* it was due earlier.
C11_Witness ==
    /\ pc = "after"
    /\ Len(fired) = 2
    /\ fired[1].id > fired[2].id
    /\ fired[1].due < fired[2].due

\* C12: the worst_lateness of a SpinResult is the maximum of (fire time - due
\* time) over the callbacks fired in that spinOnce; its next_exec_time is the
\* minimum due time among the callbacks pending after the call and absent when
\* none is pending; the main loop's accumulated worst_lateness is the maximum of
\* its previous value and the SpinResult's and never decreases.
C12_LatenessReport ==
    /\ [](pc = "after" =>
            /\ fired # <<>> =>
                /\ \A k \in 1..Len(fired) :
                       fired[k].at - fired[k].due <= spin_result.worst_lateness
                /\ \E k \in 1..Len(fired) :
                       fired[k].at - fired[k].due = spin_result.worst_lateness
            /\ LET P == {i \in CbIds : cbs[i].status = "pending"}
               IN  /\ P = {} <=> spin_result.next_exec_time = Null
                   /\ P # {} =>
                       /\ \A i \in P : spin_result.next_exec_time <= cbs[i].due
                       /\ \E i \in P : spin_result.next_exec_time = cbs[i].due)
    /\ [][worst_lateness' >= worst_lateness]_vars
    /\ [](pc = "poll" =>
            /\ worst_lateness >= spin_result.worst_lateness
            /\ fired # <<>> =>
                  \A k \in 1..Len(fired) : worst_lateness >= fired[k].at - fired[k].due)
    /\ [][(pc = "after" /\ pc' = "poll") =>
            worst_lateness' \in {worst_lateness, spin_result.worst_lateness}]_vars

\* A spinOnce fired a late callback with nothing left pending, and the loop's
\* running maximum, from an earlier spin, is larger than this spin's worst lateness.
C12_Witness ==
    /\ pc = "poll"
    /\ fired # <<>>
    /\ spin_result.worst_lateness >= 1
    /\ spin_result.next_exec_time = Null
    /\ worst_lateness > spin_result.worst_lateness

C20_DriverLoop ==
    /\ [](pc \in {"after", "poll"} => spun)
    /\ [][pc' = "poll" => pc \in {"after", "poll"}]_vars
    /\ [](pc = "poll" =>
            LET next == spin_result.next_exec_time
            IN  /\ opt_timeout <= OneSecond
                /\ next = Null => opt_timeout = OneSecond
                /\ next # Null =>
                    /\ opt_timeout <= next - now
                    /\ opt_timeout \in {OneSecond, next - now})
    /\ [](poll.outcome # "none" =>
            /\ poll.start <= poll.wake
            /\ poll.wake - poll.start <= OneSecond
            /\ spin_result.next_exec_time # Null =>
                  (poll.wake <= spin_result.next_exec_time \/ poll.wake = poll.start))
    /\ [][(pc' = "spin" /\ pc # "spin") => (pc = "while" /\ now < Deadline)]_vars
    /\ [][(pc = "while" /\ now >= Deadline) => pc' \in {"while", "done"}]_vars
    /\ [](pc = "done" => now >= Deadline)

\* A poll with a pending callback due in less than a second has blocked until
\* that due time, not for the whole second.
C20_Witness ==
    /\ pc = "while"
    /\ poll.outcome = "timeout"
    /\ poll.timeout < OneSecond
    /\ poll.wake > poll.start
    /\ spin_result.next_exec_time = poll.wake

====
